---------------------------- MODULE Spec2Model ----------------------------
(***************************************************************************)
(* A model of the multi-tenant RAG pipeline of rag.js (text normalisation, *)
(* sentence chunking, ingestion, retrieval, answering and the lifecycle of *)
(* the shared Pinecone index) and of the claims its specification makes.   *)
(*                                                                         *)
(* A text is a sequence of one-character strings.  The external services   *)
(* (Ollama, Pinecone) are the environment: every awaited call is one       *)
(* action that either resolves or rejects.                                 *)
(***************************************************************************)
EXTENDS Integers, Sequences, FiniteSets, TLC

(***************************************************************************)
(* Bounds of the model.                                                    *)
(***************************************************************************)
MaxTextLen == 5        \* longest text given to the pure text functions
MaxSize == 6           \* largest chunk size given to splitIntoChunks

(***************************************************************************)
(* Program constants.                                                      *)
(***************************************************************************)
CHUNK_SIZE == 1000

(***************************************************************************)
(* Character classes of the regular expressions.                           *)
(***************************************************************************)
Lower ==
    {"a","b","c","d","e","f","g","h","i","j","k","l","m",
     "n","o","p","q","r","s","t","u","v","w","x","y","z"}
Upper ==
    {"A","B","C","D","E","F","G","H","I","J","K","L","M",
     "N","O","P","Q","R","S","T","U","V","W","X","Y","Z"}
Space == {" ", "\n", "\t"}          \* \s
Punct == {".", ",", "!", "?"}       \* [.,!?]
Delim == {".", "!", "?"}            \* [.!?]

(***************************************************************************)
(* f[lo] \o ... \o f[hi], by halving (the recursion depth is logarithmic   *)
(* in the length, so texts longer than CHUNK_SIZE can be processed).       *)
(***************************************************************************)
RECURSIVE Concat(_, _, _)
Concat(f, lo, hi) ==
    IF lo > hi THEN <<>>
    ELSE IF lo = hi THEN f[lo]
    ELSE LET mid == (lo + hi) \div 2
         IN  Concat(f, lo, mid) \o Concat(f, mid + 1, hi)

\* The elements of a finite set of integers in increasing order.
SortedSeq(S) ==
    [k \in 1..Cardinality(S) |->
        CHOOSE x \in S : Cardinality({y \in S : y < x}) = k - 1]

\* .replace(/([a-z])([A-Z])/g, '$1 $2')
CamelSpaced(s) ==
    Concat([i \in 1..Len(s) |->
        IF i > 1 /\ s[i-1] \in Lower /\ s[i] \in Upper
        THEN <<" ", s[i]>> ELSE <<s[i]>>], 1, Len(s))

\* .replace(/\s+/g, ' '): the first character of a whitespace run becomes
\* one space, the others vanish.
SpacesCollapsed(s) ==
    Concat([i \in 1..Len(s) |->
        IF s[i] \notin Space THEN <<s[i]>>
        ELSE IF i > 1 /\ s[i-1] \in Space THEN <<>> ELSE <<" ">>], 1, Len(s))

\* A faulty step: the whitespace before punctuation is kept.
SpaceBeforePunctKept(s) == s

\* .replace(/\s+([.,!?])/g, '$1'): a whitespace run vanishes when the
\* character that ends it is a punctuation mark.
SpaceBeforePunctRemoved(s) ==
    Concat([i \in 1..Len(s) |->
        IF s[i] \notin Space THEN <<s[i]>>
        ELSE LET After == {j \in (i+1)..Len(s) : s[j] \notin Space}
             IN  IF After # {} /\
                    s[CHOOSE j \in After : \A k \in After : j <= k] \in Punct
                 THEN <<>> ELSE <<s[i]>>], 1, Len(s))

\* The first position of the run of punctuation marks that holds position i.
PunctRunStart(s, i) ==
    CHOOSE j \in 1..i :
        /\ \A k \in j..i : s[k] \in Punct
        /\ (j = 1 \/ s[j-1] \notin Punct)

\* .replace(/([.,!?])([^\s])/g, '$1 $2').  A match takes two characters and
\* the scan goes on after them, so in a run of punctuation marks the matches
\* start at the run's first, third, fifth ... mark: a mark taken as $2 of
\* one match does not start the next.
SpaceAfterPunctAdded(s) ==
    Concat([i \in 1..Len(s) |->
        IF /\ s[i] \in Punct
           /\ i < Len(s)
           /\ s[i+1] \notin Space
           /\ (i - PunctRunStart(s, i)) % 2 = 0
        THEN <<s[i], " ">> ELSE <<s[i]>>], 1, Len(s))

\* String.prototype.trim
Trim(s) ==
    LET Ink == {i \in 1..Len(s) : s[i] \notin Space}
    IN  IF Ink = {} THEN <<>>
        ELSE SubSeq(s, CHOOSE i \in Ink : \A k \in Ink : i <= k,
                       CHOOSE i \in Ink : \A k \in Ink : i >= k)

preprocessText(text) ==
    Trim(SpaceAfterPunctAdded(SpaceBeforePunctRemoved(
            SpacesCollapsed(CamelSpaced(text)))))

\* cleanText.split(/[.!?]+/): the pieces before, between and after the runs
\* of sentence delimiters, empty pieces included.
SplitSentences(s) ==
    LET n      == Len(s)
        starts == SortedSeq({i \in 1..n :
                      s[i] \in Delim /\ (i = 1 \/ s[i-1] \notin Delim)})
        ends   == SortedSeq({i \in 1..n :
                      s[i] \in Delim /\ (i = n \/ s[i+1] \notin Delim)})
        m      == Len(starts)
    IN  [k \in 1..(m + 1) |->
            SubSeq(s, IF k = 1 THEN 1 ELSE ends[k-1] + 1,
                      IF k = m + 1 THEN n ELSE starts[k] - 1)]

\* A faulty loop: a sentence that does not fit the current chunk is dropped
\* instead of starting the next chunk.
RECURSIVE ChunkLoopDropping(_, _, _, _, _)
ChunkLoopDropping(sentences, k, size, currentChunk, chunks) ==
    IF k > Len(sentences)
    THEN IF currentChunk # <<>>
         THEN Append(chunks, currentChunk \o <<".">>) ELSE chunks
    ELSE
      LET trimmedSentence == Trim(sentences[k])
      IN  IF trimmedSentence = <<>>
          THEN ChunkLoopDropping(sentences, k + 1, size, currentChunk, chunks)
          ELSE IF Len(currentChunk) + Len(trimmedSentence) + 1 <= size
          THEN ChunkLoopDropping(sentences, k + 1, size,
                   currentChunk
                     \o (IF currentChunk # <<>> THEN <<".", " ">> ELSE <<>>)
                     \o trimmedSentence,
                   chunks)
          ELSE ChunkLoopDropping(sentences, k + 1, size, <<>>,
                   IF currentChunk # <<>>
                   THEN Append(chunks, currentChunk \o <<".">>) ELSE chunks)

\* The loop of splitIntoChunks from sentence k on, then the final flush.
RECURSIVE ChunkLoop(_, _, _, _, _)
ChunkLoop(sentences, k, size, currentChunk, chunks) ==
    IF k > Len(sentences)
    THEN IF currentChunk # <<>>
         THEN Append(chunks, currentChunk \o <<".">>) ELSE chunks
    ELSE
      LET trimmedSentence == Trim(sentences[k])
      IN  IF trimmedSentence = <<>>
          THEN ChunkLoop(sentences, k + 1, size, currentChunk, chunks)
          ELSE IF Len(currentChunk) + Len(trimmedSentence) + 1 <= size
          THEN ChunkLoop(sentences, k + 1, size,
                   currentChunk
                     \o (IF currentChunk # <<>> THEN <<".", " ">> ELSE <<>>)
                     \o trimmedSentence,
                   chunks)
          ELSE ChunkLoop(sentences, k + 1, size, trimmedSentence,
                   IF currentChunk # <<>>
                   THEN Append(chunks, currentChunk \o <<".">>) ELSE chunks)

splitIntoChunks(text, size) ==
    ChunkLoop(SplitSentences(preprocessText(text)), 1, size, <<>>, <<>>)

(***************************************************************************)
(* The inputs of the pure text functions.                                  *)
(***************************************************************************)
Alphabet == {"a", "B", " ", ".", ","}
Texts == UNION {[1..n -> Alphabet] : n \in 0..MaxTextLen}

(***************************************************************************)
(* The pipeline: tenants, documents, the clock, the vector store.          *)
(***************************************************************************)
MaxCalls == 2          \* calls that can be in flight together
MaxOps == 3            \* calls started in one run
MaxClock == 1          \* Date.now() answers 0..MaxClock
MaxTopK == 2           \* topK given to findSimilarDocuments directly

INDEX_DIMENSION == 4096
DefaultMaxAttempts == 10
DefaultTopK == 3

INDEX_NAME == "rag-docs-llama"

Users == {"u1", "u2"}
Procs == 1..MaxCalls

(***************************************************************************)
(* Documents.  Texts are immutable, and the state holds a handle to each   *)
(* instead of its characters: a document or PDF is held by its name, the   *)
(* k-th chunk of a document by the pair <<name, k>>.  TextOf gives the     *)
(* characters of a chunk.  "short" fits one chunk, "long" needs two, the   *)
(* PDF's extracted text is changed by preprocessText.                      *)
(***************************************************************************)
DocNames == {"short", "long"}
PdfNames == {"pdf"}
DocText ==
    [n \in DocNames \cup PdfNames |->
        CASE n = "short" -> <<"o", "k">>
          [] n = "long"  -> [i \in 1..(CHUNK_SIZE - 1) |-> "a"] \o <<".", " ", "b">>
          [] OTHER       -> <<"o", "K", " ", "!">>]
Batches == {<<"short", "long">>}
Question == <<"q", "?">>

\* processPdfBuffer: preprocessText(data.text) of the parsed PDF.
processPdfBuffer(pdf) == preprocessText(DocText[pdf])

\* The text addDocument receives for a document or a PDF.
IngestText ==
    [n \in DocNames \cup PdfNames |->
        IF n \in PdfNames THEN processPdfBuffer(n) ELSE DocText[n]]

\* const chunks = splitIntoChunks(text), for each text addDocument receives.
ChunksOf == [n \in DocNames \cup PdfNames |-> splitIntoChunks(IngestText[n], CHUNK_SIZE)]

Handles(n) == [k \in 1..Len(ChunksOf[n]) |-> <<n, k>>]
TextOf(h) == ChunksOf[h[1]][h[2]]

\* Caller-supplied metadata: none, and one that names pipeline-set keys.
NoMeta == [k \in {} |-> ""]
ClashMeta ==
    [k \in {"title", "userId", "chunkIndex"} |->
        CASE k = "title" -> "T" [] k = "userId" -> "intruder" [] OTHER -> 99]

\* A faulty merge: the keys of a win.
SpreadFirstWins(a, b) ==
    [k \in DOMAIN a \cup DOMAIN b |-> IF k \in DOMAIN a THEN a[k] ELSE b[k]]

\* { ...a, ...b }: the keys of b win.
Spread(a, b) ==
    [k \in DOMAIN a \cup DOMAIN b |-> IF k \in DOMAIN b THEN b[k] ELSE a[k]]

\* The embedding service, a function of the text: the model has two
\* directions, "v1" for texts that start with an a and "v2" for the others.
Embedding(text) == IF text # <<>> /\ text[1] = "a" THEN "v1" ELSE "v2"

\* `doc_${Date.now()}_chunk_${i}`
MakeId(now, i) == <<"doc", now, "chunk", i>>

\* A faulty namespace choice: every tenant in one namespace.
NamespaceShared(userId) == "u1"

\* index.namespace(userId)
Namespace(userId) == userId

\* The record addDocument upserts for chunk i (from 0) of chunks.
MakeRecord(userId, metadata, chunks, i, embedding, now) ==
    [id |-> MakeId(now, i),
     values |-> embedding,
     metadata |-> Spread(metadata,
         [k \in {"text", "chunkIndex", "totalChunks", "timestamp", "userId"} |->
             CASE k = "text" -> chunks[i + 1]
               [] k = "chunkIndex" -> i
               [] k = "totalChunks" -> Len(chunks)
               [] k = "timestamp" -> now
               [] OTHER -> userId])]

\* Pinecone upsert: a record with the same id is replaced.
Upsert(records, rec) == {r \in records : r.id # rec.id} \cup {rec}

\* Faulty deletions: one that removes nothing, one that empties every
\* namespace.
DeleteNothing(st, ns) == st
DeleteEverything(st, ns) == [u \in DOMAIN st |-> {}]

\* Pinecone deleteAll on one namespace.
DeleteAll(st, ns) == [st EXCEPT ![ns] = {}]

\* Cosine similarity of the model's vectors.
Score(q, v) == IF q = v THEN 1 ELSE 0

\* Pinecone query: the rankings the store may answer, at most topK records,
\* best first, ties in any order.
Rankings(records, q, topK) ==
    LET n == IF Cardinality(records) < topK THEN Cardinality(records) ELSE topK
    IN  {m \in [1..n -> records] :
           /\ \A a, b \in 1..n : a < b =>
                 /\ m[a] # m[b]
                 /\ Score(q, m[a].values) >= Score(q, m[b].values)
           /\ \A r \in records :
                 (\A a \in 1..n : m[a] # r) =>
                    \A a \in 1..n : Score(q, m[a].values) >= Score(q, r.values)}

\* queryResult.matches of a ranking.
Matches(ranking, q) ==
    [k \in 1..Len(ranking) |->
        [id |-> ranking[k].id, score |-> Score(q, ranking[k].values),
         metadata |-> ranking[k].metadata]]

\* A faulty mapping: the matches in reverse order.
MapMatchesReversed(matches) ==
    [k \in 1..Len(matches) |->
        [text |-> matches[Len(matches) + 1 - k].metadata["text"],
         similarity |-> matches[Len(matches) + 1 - k].score,
         metadata |-> matches[Len(matches) + 1 - k].metadata]]

\* queryResult.matches.map(match => ({text, similarity, metadata}))
MapMatches(matches) ==
    [k \in 1..Len(matches) |->
        [text |-> matches[k].metadata["text"],
         similarity |-> matches[k].score,
         metadata |-> matches[k].metadata]]

VARIABLES
    txt,          \* the pure text functions' input and output
    clock,        \* the last value Date.now() answered
    index,        \* the shared Pinecone index
    store,        \* namespace -> the records stored in it
    calls,        \* slot -> the call running in it
    ops,          \* calls started so far
    createCount,  \* history: createIndex invocations
    ingested,     \* history: namespace -> upserts done since its last deleteAll
    cleared       \* history: namespace -> records removed by the deleteAll that
                  \* was its last operation, -1 when it was not a deleteAll

vars == <<txt, clock, index, store, calls, ops, createCount, ingested, cleared>>
pipe == <<clock, index, store, calls, ops, createCount, ingested, cleared>>

NoText == [pc |-> "off", text |-> <<>>, size |-> 1, clean |-> <<>>, chunks |-> <<>>]
NoIndex == [exists |-> FALSE, ready |-> FALSE, dimension |-> 0, metric |-> "none"]
NewIndex == [exists |-> TRUE, ready |-> FALSE,
             dimension |-> INDEX_DIMENSION, metric |-> "cosine"]
ReadyIndex == [NewIndex EXCEPT !.ready = TRUE]
Idle == [op |-> "none", pc |-> "idle"]

\* The process has started; the index may exist from an earlier run.
PipeInit ==
    /\ clock = 0
    /\ index \in {NoIndex, ReadyIndex}
    /\ store = [u \in Users |-> {}]
    /\ calls = [p \in Procs |-> Idle]
    /\ ops = 0
    /\ createCount = 0
    /\ ingested = [u \in Users |-> 0]
    /\ cleared = [u \in Users |-> -1]

Init == txt = NoText /\ PipeInit

\* A slot is free when no call runs in it; a finished call's result stays in
\* its slot until the next call takes it.  A call takes the first free slot.
Free(p) == calls[p].pc \in {"idle", "done", "failed"}

Begin(p, call) ==
    /\ ops < MaxOps
    /\ Free(p)
    /\ \A q \in 1..(p - 1) : ~Free(q)
    /\ calls' = [calls EXCEPT ![p] = call]
    /\ ops' = ops + 1
    /\ UNCHANGED <<txt, clock, index, store, createCount, ingested, cleared>>

Step(p, call) == calls' = [calls EXCEPT ![p] = call]

(***************************************************************************)
(* Ingestion: addDocument, addDocuments, addPdfDocument.                   *)
(* A call holds its documents, the document it is at (d, from 1), that     *)
(* document's chunks, the chunk it is at (i, from 0), the record it is     *)
(* about to upsert, its results, and a log of the external calls it made.  *)
(***************************************************************************)
IngestOps == {"addDocument", "addDocuments", "addPdfDocument"}

\* The state of a call entering addDocument for document d of its list: the
\* loop over the chunks starts, or has nothing to do.
EnterDocument(c, d, chunks) ==
    [c EXCEPT !.d = d, !.chunks = chunks, !.i = 0,
              !.pc = IF chunks # <<>> THEN "embed"
                     ELSE IF d < Len(c.documents) THEN "next" ELSE "done"]

NewIngest(op, userId, documents, metadata) ==
    [op |-> op, pc |-> "start", userId |-> userId, documents |-> documents,
     metadata |-> metadata, d |-> 1, chunks |-> <<>>, i |-> 0,
     record |-> <<>>, results |-> <<>>, log |-> <<>>, error |-> <<"none">>]

CallAddDocument(p) ==
    \E u \in Users, text \in DocNames :
        Begin(p, EnterDocument(NewIngest("addDocument", u, <<text>>, ClashMeta),
                               1, Handles(text)))

\* addDocuments(userId, documents), as the server calls it.
CallAddDocuments(p) ==
    \E u \in Users, documents \in Batches :
        Begin(p, EnterDocument(NewIngest("addDocuments", u, documents, NoMeta),
                               1, Handles(documents[1])))

CallAddPdfDocument(p) ==
    \E u \in Users, pdf \in PdfNames :
        Begin(p, [NewIngest("addPdfDocument", u, <<pdf>>,
                            Spread(NoMeta, [k \in {"documentType"} |-> "pdf"]))
                    EXCEPT !.pc = "parse"])

\* await pdfParse(pdfBuffer) resolves: addDocument runs on the text.
PdfParseOk(p) ==
    LET c == calls[p] IN
    /\ c.op = "addPdfDocument" /\ c.pc = "parse"
    /\ Step(p, EnterDocument([c EXCEPT !.log = Append(@, <<"pdfParse">>)],
                             1, Handles(c.documents[1])))
    /\ UNCHANGED <<txt, clock, index, store, ops, createCount, ingested, cleared>>

PdfParseFail(p) ==
    LET c == calls[p] IN
    /\ c.op = "addPdfDocument" /\ c.pc = "parse"
    /\ Step(p, [c EXCEPT !.pc = "failed", !.error = <<"Failed to process PDF file">>,
                         !.log = Append(@, <<"pdfParse">>)])
    /\ UNCHANGED <<txt, clock, index, store, ops, createCount, ingested, cleared>>

\* await getEmbedding(chunk) resolves: Date.now() is read (it answers the
\* value of the last reading or a later one), the id is made from it and the
\* upsert is issued.
EmbedChunkOk(p) ==
    LET c == calls[p] IN
    /\ c.op \in IngestOps /\ c.pc = "embed"
    /\ \E now \in clock..MaxClock :
         /\ clock' = now
         /\ Step(p, [c EXCEPT
               !.pc = "upsert",
               !.record = MakeRecord(c.userId, c.metadata, c.chunks, c.i,
                                     Embedding(TextOf(c.chunks[c.i + 1])), now),
               !.log = Append(@, <<"embed", c.d, c.i>>)])
    /\ UNCHANGED <<txt, index, store, ops, createCount, ingested, cleared>>

EmbedChunkFail(p) ==
    LET c == calls[p] IN
    /\ c.op \in IngestOps /\ c.pc = "embed"
    /\ Step(p, [c EXCEPT !.pc = "failed", !.error = <<"embedding">>,
                         !.log = Append(@, <<"embed", c.d, c.i>>)])
    /\ UNCHANGED <<txt, clock, index, store, ops, createCount, ingested, cleared>>

\* A faulty loop step: the chunk after the next one is taken.
AfterUpsertSkipping(c) ==
    LET done == [c EXCEPT
                   !.results = Append(@, [doc |-> c.d, id |-> c.record.id,
                                          chunk |-> c.chunks[c.i + 1]]),
                   !.log = Append(@, <<"upsert", c.d, c.i>>),
                   !.record = <<>>]
    IN  IF c.i + 2 < Len(c.chunks)
        THEN [done EXCEPT !.i = c.i + 2, !.pc = "embed"]
        ELSE IF c.d < Len(c.documents)
        THEN [done EXCEPT !.pc = "next"]
        ELSE [done EXCEPT !.pc = "done"]

\* After chunk i of document d: the next chunk, the next document, or the end.
AfterUpsert(c) ==
    LET done == [c EXCEPT
                   !.results = Append(@, [doc |-> c.d, id |-> c.record.id,
                                          chunk |-> c.chunks[c.i + 1]]),
                   !.log = Append(@, <<"upsert", c.d, c.i>>),
                   !.record = <<>>]
    IN  IF c.i + 1 < Len(c.chunks)
        THEN [done EXCEPT !.i = c.i + 1, !.pc = "embed"]
        ELSE IF c.d < Len(c.documents)
        THEN [done EXCEPT !.pc = "next"]
        ELSE [done EXCEPT !.pc = "done"]

\* await index.namespace(userId).upsert([...]) resolves.
UpsertOk(p) ==
    LET c  == calls[p]
        ns == Namespace(c.userId)
    IN
    /\ c.op \in IngestOps /\ c.pc = "upsert"
    /\ index.exists
    /\ store' = [store EXCEPT ![ns] = Upsert(@, c.record)]
    /\ ingested' = [ingested EXCEPT ![ns] = @ + 1]
    /\ cleared' = [cleared EXCEPT ![ns] = -1]
    /\ Step(p, AfterUpsert(c))
    /\ UNCHANGED <<txt, clock, index, ops, createCount>>

UpsertFail(p) ==
    LET c == calls[p] IN
    /\ c.op \in IngestOps /\ c.pc = "upsert"
    /\ Step(p, [c EXCEPT !.pc = "failed", !.error = <<"upsert">>,
                         !.log = Append(@, <<"upsert", c.d, c.i>>)])
    /\ UNCHANGED <<txt, clock, index, store, ops, createCount, ingested, cleared>>

\* addDocuments goes on to its next document.
NextDocument(p) ==
    LET c == calls[p] IN
    /\ c.op = "addDocuments" /\ c.pc = "next"
    /\ Step(p, EnterDocument(c, c.d + 1, Handles(c.documents[c.d + 1])))
    /\ UNCHANGED <<txt, clock, index, store, ops, createCount, ingested, cleared>>

(***************************************************************************)
(* clearIndex and deleteUserIndex.                                         *)
(***************************************************************************)
ClearOps == {"clearIndex", "deleteUserIndex"}

NewClear(op, userId) ==
    [op |-> op, pc |-> "deleteAll", userId |-> userId, log |-> <<>>,
     error |-> <<"none">>, message |-> "none"]

CallClearIndex(p) == \E u \in Users : Begin(p, NewClear("clearIndex", u))

\* A faulty deleteUserIndex: it reports success without calling clearIndex.
CallDeleteUserIndexNoClear(p) ==
    \E u \in Users :
        Begin(p, [NewClear("deleteUserIndex", u) EXCEPT
                     !.pc = "done", !.message = "Deleted all documents for user"])

\* deleteUserIndex: await clearIndex(userId).
CallDeleteUserIndex(p) ==
    \E u \in Users : Begin(p, NewClear("deleteUserIndex", u))

\* A deleteAll that waits: it resolves only when no ingest call on its
\* namespace is running.
DeleteAllOkLocked(p) ==
    LET c  == calls[p]
        ns == Namespace(c.userId)
    IN
    /\ c.op \in ClearOps /\ c.pc = "deleteAll"
    /\ index.exists
    /\ \A q \in Procs :
          ~(calls[q].op \in IngestOps /\ ~Free(q) /\ Namespace(calls[q].userId) = ns)
    /\ store' = DeleteAll(store, ns)
    /\ ingested' = [ingested EXCEPT ![ns] = 0]
    /\ cleared' = [cleared EXCEPT ![ns] = Cardinality(store[ns])]
    /\ Step(p, [c EXCEPT !.pc = "done", !.log = Append(@, <<"deleteAll", ns>>),
                  !.message = IF c.op = "clearIndex"
                              THEN "Documents cleared successfully for user"
                              ELSE "Deleted all documents for user"])
    /\ UNCHANGED <<txt, clock, index, ops, createCount>>

\* await index.namespace(userId).deleteAll() resolves.
DeleteAllOk(p) ==
    LET c  == calls[p]
        ns == Namespace(c.userId)
    IN
    /\ c.op \in ClearOps /\ c.pc = "deleteAll"
    /\ index.exists
    /\ store' = DeleteAll(store, ns)
    /\ ingested' = [ingested EXCEPT ![ns] = 0]
    /\ cleared' = [cleared EXCEPT ![ns] = Cardinality(store[ns])]
    /\ Step(p, [c EXCEPT !.pc = "done", !.log = Append(@, <<"deleteAll", ns>>),
                  !.message = IF c.op = "clearIndex"
                              THEN "Documents cleared successfully for user"
                              ELSE "Deleted all documents for user"])
    /\ UNCHANGED <<txt, clock, index, ops, createCount>>

DeleteAllFail(p) ==
    LET c == calls[p] IN
    /\ c.op \in ClearOps /\ c.pc = "deleteAll"
    /\ Step(p, [c EXCEPT !.pc = "failed", !.error = <<"deleteAll">>,
                  !.log = Append(@, <<"deleteAll", Namespace(c.userId)>>)])
    /\ UNCHANGED <<txt, clock, index, store, ops, createCount, ingested, cleared>>

(***************************************************************************)
(* Retrieval and answering: findSimilarDocuments, askQuestion.             *)
(* afterClear and held are history: what the namespace's last operation    *)
(* removed (-1 when it was no deleteAll) and how many records it held,     *)
(* when the query was answered.                                            *)
(***************************************************************************)
FindOps == {"findSimilarDocuments", "askQuestion"}

NewFind(op, userId, query, topK) ==
    [op |-> op, pc |-> "embedQuery", userId |-> userId, query |-> query,
     topK |-> topK, vector |-> "none", afterClear |-> -1, held |-> 0,
     results |-> <<>>, context |-> <<>>, answer |-> "none",
     log |-> <<>>, error |-> <<"none">>]

CallFindSimilarDocuments(p) ==
    \E u \in Users, topK \in 1..MaxTopK :
        Begin(p, NewFind("findSimilarDocuments", u, Question, topK))

\* askQuestion(userId, question, true), as the server calls it.
CallAskQuestion(p) ==
    \E u \in Users : Begin(p, NewFind("askQuestion", u, Question, DefaultTopK))

\* await getEmbedding(query) resolves: the namespace query is issued.
EmbedQueryOk(p) ==
    LET c == calls[p] IN
    /\ c.op \in FindOps /\ c.pc = "embedQuery"
    /\ Step(p, [c EXCEPT !.pc = "query", !.vector = Embedding(c.query),
                         !.log = Append(@, <<"embed", c.query>>)])
    /\ UNCHANGED <<txt, clock, index, store, ops, createCount, ingested, cleared>>

EmbedQueryFail(p) ==
    LET c == calls[p] IN
    /\ c.op \in FindOps /\ c.pc = "embedQuery"
    /\ Step(p, [c EXCEPT !.pc = "failed", !.error = <<"embedding">>,
                         !.log = Append(@, <<"embed", c.query>>)])
    /\ UNCHANGED <<txt, clock, index, store, ops, createCount, ingested, cleared>>

\* A faulty context: the texts in reverse rank order.
ContextReversed(docs) == [k \in 1..Len(docs) |-> docs[Len(docs) + 1 - k].text]

\* similarDocs.map(doc => doc.text): the texts that join('\n\n') makes the
\* context of.
Context(docs) == [k \in 1..Len(docs) |-> docs[k].text]

\* The characters of a context.
ContextText(context) ==
    Concat([k \in 1..Len(context) |->
               (IF k > 1 THEN <<"\n", "\n">> ELSE <<>>) \o TextOf(context[k])],
           1, Len(context))

\* await index.namespace(userId).query({vector, topK, includeMetadata})
\* resolves.  findSimilarDocuments returns; askQuestion builds the context
\* and issues the generation call.
QueryOk(p) ==
    LET c  == calls[p]
        ns == Namespace(c.userId)
    IN
    /\ c.op \in FindOps /\ c.pc = "query"
    /\ index.exists
    /\ \E ranking \in Rankings(store[ns], c.vector, c.topK) :
         LET similarDocs == MapMatches(Matches(ranking, c.vector))
             found == [c EXCEPT !.results = similarDocs,
                                !.afterClear = cleared[ns],
                                !.held = Cardinality(store[ns]),
                                !.log = Append(@, <<"query", ns, c.topK>>)]
         IN  Step(p, IF c.op = "askQuestion"
                     THEN [found EXCEPT !.pc = "generate",
                                        !.context = Context(similarDocs)]
                     ELSE [found EXCEPT !.pc = "done"])
    /\ UNCHANGED <<txt, clock, index, store, ops, createCount, ingested, cleared>>

QueryFail(p) ==
    LET c == calls[p] IN
    /\ c.op \in FindOps /\ c.pc = "query"
    /\ Step(p, [c EXCEPT !.pc = "failed", !.error = <<"query">>,
                  !.log = Append(@, <<"query", Namespace(c.userId), c.topK>>)])
    /\ UNCHANGED <<txt, clock, index, store, ops, createCount, ingested, cleared>>

\* await fetch(.../api/generate) resolves with response.ok.
GenerateOk(p) ==
    LET c == calls[p] IN
    /\ c.op = "askQuestion" /\ c.pc = "generate"
    /\ Step(p, [c EXCEPT !.pc = "done", !.answer = "response",
                         !.log = Append(@, <<"generate">>)])
    /\ UNCHANGED <<txt, clock, index, store, ops, createCount, ingested, cleared>>

GenerateFail(p) ==
    LET c == calls[p] IN
    /\ c.op = "askQuestion" /\ c.pc = "generate"
    /\ Step(p, [c EXCEPT !.pc = "failed", !.error = <<"generation">>,
                         !.log = Append(@, <<"generate">>)])
    /\ UNCHANGED <<txt, clock, index, store, ops, createCount, ingested, cleared>>

(***************************************************************************)
(* createUserIndex and waitForIndex.  polls, sawReady, startedReady,       *)
(* creates and swallowed are history: the describeIndex calls waitForIndex *)
(* made, whether one reported ready, whether the index was ready when the  *)
(* call started, the createIndex invocations of the call, and whether a    *)
(* rejection of one of its external calls was caught and the call went on. *)
(***************************************************************************)
NewCreate(userId, ready) ==
    [op |-> "createUserIndex", pc |-> "describe", userId |-> userId,
     maxAttempts |-> DefaultMaxAttempts, i |-> 0, polls |-> 0,
     sawReady |-> FALSE, startedReady |-> ready, creates |-> 0,
     swallowed |-> FALSE,
     log |-> <<>>, error |-> <<"none">>, message |-> "none"]

CallCreateUserIndex(p) ==
    \E u \in Users : Begin(p, NewCreate(u, index.exists /\ index.ready))

\* A faulty success path: after describeIndex resolves the call goes on to
\* waitForIndex.
DescribeOkThenPoll(p) ==
    LET c == calls[p] IN
    /\ c.op = "createUserIndex" /\ c.pc = "describe"
    /\ index.exists
    /\ Step(p, [c EXCEPT !.pc = "poll", !.log = Append(@, <<"describeIndex">>)])
    /\ UNCHANGED <<txt, clock, index, store, ops, createCount, ingested, cleared>>

\* await pinecone.describeIndex(INDEX_NAME) resolves: success is returned.
DescribeOk(p) ==
    LET c == calls[p] IN
    /\ c.op = "createUserIndex" /\ c.pc = "describe"
    /\ index.exists
    /\ Step(p, [c EXCEPT !.pc = "done", !.message = "Index ready for user",
                         !.log = Append(@, <<"describeIndex">>)])
    /\ UNCHANGED <<txt, clock, index, store, ops, createCount, ingested, cleared>>

\* describeIndex rejects (no such index, or the request failed): the catch
\* block invokes createIndex.
DescribeFail(p) ==
    LET c == calls[p] IN
    /\ c.op = "createUserIndex" /\ c.pc = "describe"
    /\ Step(p, [c EXCEPT !.pc = "create", !.creates = @ + 1,
                  !.swallowed = TRUE,
                  !.log = @ \o <<(<<"describeIndex">>), (<<"createIndex">>)>>])
    /\ createCount' = createCount + 1
    /\ UNCHANGED <<txt, clock, index, store, ops, ingested, cleared>>

\* await pinecone.createIndex({...}) resolves: waitForIndex() starts.
CreateIndexOk(p) ==
    LET c == calls[p] IN
    /\ c.op = "createUserIndex" /\ c.pc = "create"
    /\ ~index.exists
    /\ index' = NewIndex
    /\ Step(p, [c EXCEPT !.pc = "poll", !.i = 0])
    /\ UNCHANGED <<txt, clock, store, ops, createCount, ingested, cleared>>

\* createIndex rejects (the index exists already, or the request failed).
CreateIndexFail(p) ==
    LET c == calls[p] IN
    /\ c.op = "createUserIndex" /\ c.pc = "create"
    /\ Step(p, [c EXCEPT !.pc = "failed", !.error = <<"createIndex">>])
    /\ UNCHANGED <<txt, clock, index, store, ops, createCount, ingested, cleared>>

\* A faulty loop test: i <= maxAttempts, one attempt too many.
AfterSleepOneMore(c) ==
    IF c.i + 1 <= c.maxAttempts
    THEN [c EXCEPT !.i = c.i + 1]
    ELSE [c EXCEPT !.i = c.i + 1, !.pc = "failed",
                   !.error = <<"Index not ready after attempts",
                               INDEX_NAME, c.maxAttempts>>]

\* waitForIndex after attempt i has slept: the next attempt, or the throw.
AfterSleep(c) ==
    IF c.i + 1 < c.maxAttempts
    THEN [c EXCEPT !.i = c.i + 1]
    ELSE [c EXCEPT !.i = c.i + 1, !.pc = "failed",
                   !.error = <<"Index not ready after attempts",
                               INDEX_NAME, c.maxAttempts>>]

\* An attempt of waitForIndex: describeIndex reports status.ready.
PollReady(p) ==
    LET c == calls[p] IN
    /\ c.op = "createUserIndex" /\ c.pc = "poll"
    /\ index.exists /\ index.ready
    /\ Step(p, [c EXCEPT !.pc = "done", !.polls = @ + 1, !.sawReady = TRUE,
                  !.message = "Created index and ready for user",
                  !.log = Append(@, <<"describeIndex">>)])
    /\ UNCHANGED <<txt, clock, index, store, ops, createCount, ingested, cleared>>

\* An attempt that reports an index not ready yet, then the 2 s sleep.
PollNotReady(p) ==
    LET c == calls[p] IN
    /\ c.op = "createUserIndex" /\ c.pc = "poll"
    /\ index.exists /\ ~index.ready
    /\ Step(p, AfterSleep([c EXCEPT !.polls = @ + 1,
                             !.log = Append(@, <<"describeIndex">>)]))
    /\ UNCHANGED <<txt, clock, index, store, ops, createCount, ingested, cleared>>

\* An attempt whose describeIndex rejects: logged, then the 2 s sleep.
PollThrow(p) ==
    LET c == calls[p] IN
    /\ c.op = "createUserIndex" /\ c.pc = "poll"
    /\ Step(p, AfterSleep([c EXCEPT !.polls = @ + 1, !.swallowed = TRUE,
                             !.log = Append(@, <<"describeIndex">>)]))
    /\ UNCHANGED <<txt, clock, index, store, ops, createCount, ingested, cleared>>

(***************************************************************************)
(* The environment: the created index becomes ready.                       *)
(***************************************************************************)
IndexBecomesReady ==
    /\ index.exists /\ ~index.ready
    /\ index' = [index EXCEPT !.ready = TRUE]
    /\ UNCHANGED <<txt, clock, store, calls, ops, createCount, ingested, cleared>>

\* The calls that read and write the namespaces.
DataNext ==
    \E p \in Procs :
         \/ CallAddDocument(p) \/ CallAddDocuments(p) \/ CallAddPdfDocument(p)
         \/ PdfParseOk(p) \/ PdfParseFail(p)
         \/ EmbedChunkOk(p) \/ EmbedChunkFail(p)
         \/ UpsertOk(p) \/ UpsertFail(p) \/ NextDocument(p)
         \/ CallClearIndex(p) \/ CallDeleteUserIndex(p)
         \/ DeleteAllOk(p) \/ DeleteAllFail(p)
         \/ CallFindSimilarDocuments(p) \/ CallAskQuestion(p)
         \/ EmbedQueryOk(p) \/ EmbedQueryFail(p)
         \/ QueryOk(p) \/ QueryFail(p)
         \/ GenerateOk(p) \/ GenerateFail(p)

\* The calls that describe, create and wait for the shared index.
IndexNext ==
    \/ IndexBecomesReady
    \/ \E p \in Procs :
         \/ CallCreateUserIndex(p)
         \/ DescribeOk(p) \/ DescribeFail(p)
         \/ CreateIndexOk(p) \/ CreateIndexFail(p)
         \/ PollReady(p) \/ PollNotReady(p) \/ PollThrow(p)

Next == DataNext \/ IndexNext

\* Every call of the program, in every interleaving.
Spec == Init /\ [][Next]_vars

\* The namespace calls on an index that exists (on one that does not, each
\* of them can only reject, as it can here).
DataInit == Init /\ index = ReadyIndex
DataSpec == DataInit /\ [][DataNext]_vars

\* The index calls.
IndexSpec == Init /\ [][IndexNext]_vars

(***************************************************************************)
(* The pure text functions on every text and size of the bounds.           *)
(***************************************************************************)
TextInit ==
    /\ txt \in [pc : {"input"}, text : Texts, size : 1..MaxSize,
                clean : {<<>>}, chunks : {<<>>}]
    /\ PipeInit

Split ==
    /\ txt.pc = "input"
    /\ txt' = [txt EXCEPT !.pc = "split",
                          !.clean = preprocessText(txt.text),
                          !.chunks = splitIntoChunks(txt.text, txt.size)]
    /\ UNCHANGED pipe

TextNext == Split

TextSpec == TextInit /\ [][TextNext]_vars

(***************************************************************************)
(* The claims.                                                             *)
(***************************************************************************)

\* C1: namespace isolation.  Every result a retrieval of tenant B returns is
\* a record that an ingest call made with userId = B; no record of another
\* tenant is returned.  (Checked under DataSpec.)
C1_NamespaceIsolation ==
    \A p \in Procs :
        calls[p].op \in FindOps =>
            \A k \in 1..Len(calls[p].results) :
                calls[p].results[k].metadata["userId"] = calls[p].userId

\* A retrieval has returned records of its tenant while another tenant's
\* namespace holds records.
C1_Witness ==
    \E p \in Procs :
        /\ calls[p].op \in FindOps
        /\ calls[p].results # <<>>
        /\ \E v \in Users \ {calls[p].userId} : store[v] # {}

\* C2: record ids are unique within a namespace: no upsert overwrites a
\* stored chunk, so a namespace holds as many records as chunks were
\* upserted into it since its last clear.  (Stated as claimed; DataSpec.)
C2_UniqueIds ==
    \A u \in Users : Cardinality(store[u]) = ingested[u]

\* The number of full stops of a chunk: it holds one sentence segment per
\* full stop, the last one being the trailing '.'.
Segments(chunk) == Cardinality({j \in 1..Len(chunk) : chunk[j] = "."})

\* C3: every chunk splitIntoChunks(text, size) returns has length <= size,
\* except a chunk of exactly one sentence segment that is itself longer than
\* size.  (Stated as claimed; TextSpec.)
C3_ChunkLength ==
    txt.pc = "split" =>
        \A k \in 1..Len(txt.chunks) :
            \/ Len(txt.chunks[k]) <= txt.size
            \/ /\ Segments(txt.chunks[k]) = 1
               /\ Len(txt.chunks[k]) - 1 > txt.size

\* C4: a retrieval answered when the last operation on its namespace was a
\* successful deleteAll returns the empty sequence, whatever was ingested
\* before.  (DataSpec.)
C4_EmptyAfterClear ==
    \A p \in Procs :
        (calls[p].op \in FindOps /\ calls[p].afterClear >= 0) =>
            calls[p].results = <<>>

\* A retrieval has returned after a clear that removed records.
C4_Witness ==
    \E p \in Procs :
        /\ calls[p].op \in FindOps
        /\ calls[p].pc \in {"done", "generate"}
        /\ calls[p].afterClear > 0
        /\ calls[p].results = <<>>

\* C5: the step of clearIndex or deleteUserIndex that ends its deleteAll
\* leaves every other tenant's namespace and the shared index as they were.
\* (DataSpec.)
C5_ClearFrame ==
    [][\A p \in Procs :
          (/\ calls[p].op \in ClearOps
           /\ calls[p].pc = "deleteAll"
           /\ calls'[p].pc # "deleteAll")
          => /\ index' = index
             /\ \A v \in Users \ {calls[p].userId} : store'[v] = store[v]]_vars

\* A clear has removed its tenant's records while another tenant's namespace
\* holds records.
C5_Witness ==
    \E p \in Procs :
        /\ calls[p].op \in ClearOps
        /\ calls[p].pc = "done"
        /\ cleared[calls[p].userId] > 0
        /\ \E v \in Users \ {calls[p].userId} : store[v] # {}

\* C6: over any interleaving of createUserIndex calls, createIndex is
\* invoked at most once in total.  (Stated as claimed; IndexSpec.)
C6_CreatedOnce == createCount <= 1

\* C7: a createUserIndex call made on an index that exists and is ready
\* returns success without invoking createIndex and without polling.
\* (Stated as claimed; IndexSpec.)
C7_ReadyIndexNotCreated ==
    \A p \in Procs :
        (calls[p].op = "createUserIndex" /\ calls[p].startedReady) =>
            /\ calls[p].pc \in {"describe", "done"}
            /\ calls[p].creates = 0
            /\ calls[p].polls = 0

\* The error waitForIndex throws.
IndexNotReady(c) == <<"Index not ready after attempts", INDEX_NAME, c.maxAttempts>>

\* C8: waitForIndex makes at most maxAttempts describeIndex calls; it
\* returns at the first one that reports ready, and it throws the
\* index-not-ready error, naming the index and maxAttempts, exactly when
\* maxAttempts calls were made and none reported ready.  (IndexSpec.)
C8_PollingBounded ==
    \A p \in Procs :
        calls[p].op = "createUserIndex" =>
            LET c == calls[p] IN
            /\ c.polls <= c.maxAttempts
            /\ c.pc = "poll" => (c.polls < c.maxAttempts /\ ~c.sawReady)
            /\ (c.pc = "done" /\ c.creates > 0) => (c.sawReady /\ c.polls >= 1)
            /\ (c.polls = c.maxAttempts /\ ~c.sawReady)
                   <=> (c.pc = "failed" /\ c.error = IndexNotReady(c))

\* Polling has been exhausted.
C8_Witness ==
    \E p \in Procs :
        /\ calls[p].op = "createUserIndex"
        /\ calls[p].pc = "failed"
        /\ calls[p].error = IndexNotReady(calls[p])
        /\ calls[p].polls = DefaultMaxAttempts

\* The chunks an ingest call has upserted when it is at chunk i of document
\* d: every chunk of the documents before d, and the chunks before i of d.
Prefix(c) ==
    {<<e, k>> \in (1..c.d) \X (0..1) :
        \/ e < c.d /\ k < Len(ChunksOf[c.documents[e]])
        \/ e = c.d /\ k < c.i}

\* C9: when the embedding or the upsert of chunk k of document d fails, the
\* call throws, the namespace holds every chunk of the documents before d
\* and the chunks before k of d, and the failed call is the last external
\* call of the call.  (Stated as claimed, for a call that runs alone;
\* DataSpec.)
C9_FailureLeavesPrefix ==
    \A p \in Procs :
        (/\ ops = 1
         /\ calls[p].op \in IngestOps
         /\ calls[p].pc = "failed"
         /\ calls[p].error \in {<<"embedding">>, <<"upsert">>})
        => LET c == calls[p] IN
           /\ {<<r.doc, r.chunk[2] - 1>> : r \in {c.results[k] : k \in 1..Len(c.results)}}
                = Prefix(c)
           /\ \A k \in 1..Len(c.results) :
                 \E r \in store[Namespace(c.userId)] :
                    /\ r.id = c.results[k].id
                    /\ r.metadata["text"] = c.results[k].chunk
           /\ c.log[Len(c.log)] \in {<<"embed", c.d, c.i>>, <<"upsert", c.d, c.i>>}

\* C10: findSimilarDocuments returns one result per match of the namespace
\* query: never more than topK, fewer only when the namespace holds fewer
\* records, and in non-increasing order of similarity.  (DataSpec.)
C10_TopKOrdered ==
    \A p \in Procs :
        (calls[p].op \in FindOps /\ calls[p].pc \in {"done", "generate"}) =>
            LET c == calls[p] IN
            /\ Len(c.results) <= c.topK
            /\ Len(c.results) = IF c.held < c.topK THEN c.held ELSE c.topK
            /\ \A a, b \in 1..Len(c.results) :
                  a < b => c.results[a].similarity >= c.results[b].similarity

\* A retrieval on a namespace that held more than topK records has returned
\* topK results of different similarity.
C10_Witness ==
    \E p \in Procs :
        /\ calls[p].op \in FindOps
        /\ calls[p].pc \in {"done", "generate"}
        /\ calls[p].held > calls[p].topK
        /\ Len(calls[p].results) = calls[p].topK
        /\ calls[p].results[1].similarity > calls[p].results[calls[p].topK].similarity

\* The segments read back from a chunk: its trailing '.' stripped, the rest
\* split on '. '.
ChunkSegments(chunk) ==
    LET body == IF chunk # <<>> /\ chunk[Len(chunk)] = "."
                THEN SubSeq(chunk, 1, Len(chunk) - 1) ELSE chunk
        n    == Len(body)
        cuts == SortedSeq({i \in 1..(n - 1) : body[i] = "." /\ body[i+1] = " "})
        m    == Len(cuts)
    IN  [k \in 1..(m + 1) |->
            SubSeq(body, IF k = 1 THEN 1 ELSE cuts[k-1] + 2,
                         IF k = m + 1 THEN n ELSE cuts[k] - 1)]

\* The segments of all chunks, in order.
AllSegments(chunks) ==
    Concat([k \in 1..Len(chunks) |-> ChunkSegments(chunks[k])], 1, Len(chunks))

NonEmpty(s) == s # <<>>

\* The non-empty trimmed sentence segments of a cleaned text, in order.
TrimmedSentences(clean) ==
    SelectSeq([k \in 1..Len(SplitSentences(clean)) |->
                  Trim(SplitSentences(clean)[k])], NonEmpty)

\* C11: chunking neither drops nor duplicates content: the segments read
\* back from the chunks of splitIntoChunks(text, size), in order, are the
\* non-empty trimmed sentence segments of preprocessText(text), in order, and
\* no chunk is empty.  (TextSpec.)
C11_ChunksKeepSegments ==
    txt.pc = "split" =>
        /\ AllSegments(txt.chunks) = TrimmedSentences(txt.clean)
        /\ \A k \in 1..Len(txt.chunks) :
              /\ txt.chunks[k] # <<>>
              /\ \A j \in 1..Len(ChunkSegments(txt.chunks[k])) :
                    ChunkSegments(txt.chunks[k])[j] # <<>>

\* A text has been split into two chunks or more, one of them of two
\* segments or more.
C11_Witness ==
    /\ txt.pc = "split"
    /\ Len(txt.chunks) >= 2
    /\ \E k \in 1..Len(txt.chunks) : Len(ChunkSegments(txt.chunks[k])) >= 2

\* C12: preprocessText is idempotent: applied to its own result, it returns
\* that result.  (TextSpec.)
C12_PreprocessIdempotent ==
    txt.pc = "split" => preprocessText(txt.clean) = txt.clean

\* A text that preprocessText both shortened (whitespace removed) and
\* spaced (a space added after punctuation or inside a camelCase word).
C12_Witness ==
    /\ txt.pc = "split"
    /\ txt.clean # txt.text
    /\ \E i \in 1..(Len(txt.text) - 1) :
          txt.text[i] \in Punct /\ txt.text[i+1] \in Punct
    /\ \E i \in 1..(Len(txt.text) - 1) :
          txt.text[i] \in Lower /\ txt.text[i+1] \in Upper
    /\ \E i \in 1..(Len(txt.text) - 1) :
          txt.text[i] \in Space /\ txt.text[i+1] \in Punct

\* C13: deleteUserIndex is clearIndex.  A call of either ends only by the
\* answer to its single deleteAll on the namespace of userId: when the
\* deleteAll resolves the call succeeds and the namespace is empty, every
\* other namespace and the index as they were; when it rejects the call
\* fails with that error and the store is as it was.  (DataSpec.)
C13_DeleteIsClear ==
    [][\A p \in Procs :
          (/\ calls'[p] # calls[p]
           /\ calls'[p].op \in ClearOps
           /\ calls'[p].pc \in {"done", "failed"})
          => LET ns == Namespace(calls'[p].userId) IN
             /\ calls[p].op = calls'[p].op
             /\ calls[p].pc = "deleteAll"
             /\ calls'[p].log = <<(<<"deleteAll", ns>>)>>
             /\ index' = index
             /\ \/ /\ calls'[p].pc = "done"
                   /\ store' = [u \in Users |-> IF u = ns THEN {} ELSE store[u]]
                \/ /\ calls'[p].pc = "failed"
                   /\ calls'[p].error = <<"deleteAll">>
                   /\ store' = store]_vars

\* A deleteUserIndex has succeeded and removed records.
C13_Witness ==
    \E p \in Procs :
        /\ calls[p].op = "deleteUserIndex"
        /\ calls[p].pc = "done"
        /\ cleared[calls[p].userId] > 0
        /\ store[calls[p].userId] = {}

\* The external calls of a createUserIndex call so far: describeIndex, then
\* after its failure createIndex, then the describeIndex calls of the polling.
CreateLogShape(c) ==
    /\ c.creates <= 1
    /\ Len(c.log) = (IF c.pc = "describe" THEN 0 ELSE 1) + c.creates + c.polls
    /\ \A k \in 1..Len(c.log) :
          c.log[k] = IF k = 2 /\ c.creates = 1
                     THEN <<"createIndex">> ELSE <<"describeIndex">>
    /\ (c.pc \in {"create", "poll"} \/ c.polls > 0) => c.creates = 1
    /\ c.pc = "done" =>
          \/ c.creates = 0 /\ c.polls = 0
          \/ c.creates = 1 /\ c.polls >= 1 /\ c.sawReady
    /\ index.exists => (index.dimension = 4096 /\ index.metric = "cosine")

\* C14, as claimed: every createUserIndex call follows one of three paths:
\* describeIndex succeeds and the call succeeds; describeIndex fails,
\* createIndex is invoked with dimension 4096 and metric cosine, polling
\* runs and the call succeeds; or the same with polling exhausted and the
\* call failing.  The call fails only through poll exhaustion.  (IndexSpec.)
C14_ThreePaths ==
    \A p \in Procs :
        calls[p].op = "createUserIndex" =>
            /\ CreateLogShape(calls[p])
            /\ calls[p].pc = "failed" =>
                  /\ calls[p].error = IndexNotReady(calls[p])
                  /\ calls[p].polls = calls[p].maxAttempts

\* C14, amended: there is a fourth path.  describeIndex fails, createIndex is
\* invoked and rejects, and the call fails with that error without polling.
\* A call fails only through poll exhaustion or the rejection of createIndex.
C14_FourPaths ==
    \A p \in Procs :
        calls[p].op = "createUserIndex" =>
            /\ CreateLogShape(calls[p])
            /\ calls[p].pc = "failed" =>
                  \/ /\ calls[p].error = IndexNotReady(calls[p])
                     /\ calls[p].polls = calls[p].maxAttempts
                  \/ /\ calls[p].error = <<"createIndex">>
                     /\ calls[p].creates = 1
                     /\ calls[p].polls = 0

\* A call has failed by the rejection of createIndex while another has
\* succeeded through polling.
C14_Witness ==
    \E p, q \in Procs :
        /\ calls[p].op = "createUserIndex" /\ calls[p].pc = "failed"
        /\ calls[p].error = <<"createIndex">>
        /\ calls[q].op = "createUserIndex" /\ calls[q].pc = "done"
        /\ calls[q].creates = 1 /\ calls[q].sawReady

\* C15: whenever createUserIndex returns success, the shared index exists
\* and is ready at that moment.  (Stated as claimed; IndexSpec.)
C15_SuccessMeansReady ==
    [][\A p \in Procs :
          (/\ calls'[p] # calls[p]
           /\ calls'[p].op = "createUserIndex"
           /\ calls'[p].pc = "done")
          => (index'.exists /\ index'.ready)]_vars

\* C16: a failure of an external call ends the operation with that error
\* surfaced to the caller: no call goes on after one of its external calls
\* has rejected.  (Stated as claimed, for createUserIndex; IndexSpec.)
C16_NoSilentRecovery ==
    \A p \in Procs :
        calls[p].op = "createUserIndex" => ~calls[p].swallowed

\* C17: ingest and clear on one namespace are not atomic with respect to
\* each other.  Nothing holds back the deleteAll of a clearIndex while an
\* addDocument on the same namespace is between two of its chunks; the
\* interleaving the claim names, after which both have succeeded and the
\* namespace holds some but not all chunks of the document, is C17_Witness.
\* (DataSpec.)
C17_ClearNotHeldBack ==
    \A p, q \in Procs :
        (/\ calls[p].op = "clearIndex" /\ calls[p].pc = "deleteAll"
         /\ calls[q].op = "addDocument" /\ calls[q].pc \in {"embed", "upsert"}
         /\ calls[q].i >= 1
         /\ calls[q].userId = calls[p].userId)
        => ENABLED DeleteAllOk(p)

\* An addDocument of a document of two chunks and a clearIndex of the same
\* tenant, the only calls of the run, have both succeeded and the namespace
\* holds one of the two chunks.
C17_Witness ==
    \E p, q \in Procs :
        /\ ops = 2
        /\ calls[p].op = "clearIndex" /\ calls[p].pc = "done"
        /\ calls[q].op = "addDocument" /\ calls[q].pc = "done"
        /\ calls[q].userId = calls[p].userId
        /\ Len(calls[q].chunks) >= 2
        /\ LET held == {r.metadata["text"] : r \in store[Namespace(calls[q].userId)]}
               all  == {calls[q].chunks[k] : k \in 1..Len(calls[q].chunks)}
           IN  held # {} /\ held \subseteq all /\ held # all

\* The external calls of document e of n chunks, one chunk after the other:
\* embed, then upsert.
DocSteps(e, n) ==
    [k \in 1..(2 * n) |->
        IF k % 2 = 1 THEN <<"embed", e, (k - 1) \div 2>>
                     ELSE <<"upsert", e, (k - 2) \div 2>>]

\* The external calls of an ingest call that runs to its end, in order.
AllSteps(c) ==
    (IF c.op = "addPdfDocument" THEN <<(<<"pdfParse">>)>> ELSE <<>>)
    \o Concat([e \in 1..Len(c.documents) |->
                  DocSteps(e, Len(ChunksOf[c.documents[e]]))],
              1, Len(c.documents))

\* C18: within one ingest call the external calls are made one at a time in
\* chunk order: the calls made so far are an initial part of embed 0,
\* upsert 0, embed 1, upsert 1, ... of document 1, then of document 2, and
\* so on; the call in flight is the next of that sequence; a call that
\* succeeds has made them all.  (DataSpec.)
C18_OneCallAtATime ==
    \A p \in Procs :
        calls[p].op \in IngestOps =>
            LET c == calls[p]
                all == AllSteps(c)
            IN
            /\ Len(c.log) <= Len(all)
            /\ \A k \in 1..Len(c.log) : c.log[k] = all[k]
            /\ c.pc \in {"embed", "upsert"} =>
                  /\ Len(c.log) < Len(all)
                  /\ all[Len(c.log) + 1] = <<c.pc, c.d, c.i>>
            /\ c.pc = "parse" => c.log = <<>>
            /\ c.pc = "done" => c.log = all

\* An addDocuments call of two documents, three chunks in all, has
\* succeeded.
C18_Witness ==
    \E p \in Procs :
        /\ calls[p].op = "addDocuments"
        /\ calls[p].pc = "done"
        /\ Len(calls[p].documents) = 2
        /\ Len(calls[p].log) = 6

\* The external calls of an askQuestion call that runs to its end.
AskSteps(c) ==
    << <<"embed", c.query>>, <<"query", Namespace(c.userId), 3>>, <<"generate">> >>

\* C19: every askQuestion call makes one embedding call for the question,
\* then one query with topK = 3 on the namespace of userId, then one
\* generation call whose context is the returned texts in rank order; when
\* the embedding or the query fails no generation call is made.  (DataSpec.)
C19_AskCallsInOrder ==
    \A p \in Procs :
        calls[p].op = "askQuestion" =>
            LET c == calls[p] IN
            /\ Len(c.log) <= 3
            /\ \A k \in 1..Len(c.log) : c.log[k] = AskSteps(c)[k]
            /\ c.pc = "embedQuery" <=> c.log = <<>>
            /\ c.pc = "query" => Len(c.log) = 1
            /\ c.pc = "generate" => Len(c.log) = 2
            /\ c.pc = "done" => Len(c.log) = 3
            /\ (c.pc = "failed" /\ c.error \in {<<"embedding">>, <<"query">>}) =>
                  Len(c.log) = (IF c.error = <<"embedding">> THEN 1 ELSE 2)
            /\ c.pc \in {"generate", "done"} =>
                  /\ Len(c.context) = Len(c.results)
                  /\ \A k \in 1..Len(c.results) : c.context[k] = c.results[k].text

\* Two askQuestion calls of one tenant with the same question have both
\* succeeded, each with its own three calls and a context of two texts or
\* more.
C19_Witness ==
    \E p, q \in Procs :
        /\ p # q
        /\ calls[p].op = "askQuestion" /\ calls[q].op = "askQuestion"
        /\ calls[p].pc = "done" /\ calls[q].pc = "done"
        /\ calls[p].userId = calls[q].userId
        /\ calls[p].query = calls[q].query
        /\ Len(calls[p].log) = 3 /\ Len(calls[q].log) = 3
        /\ Len(calls[p].context) >= 2 /\ Len(calls[q].context) >= 2

\* The metadata keys addDocument sets itself.
PipelineKeys == {"text", "chunkIndex", "totalChunks", "timestamp", "userId"}

\* The record of chunk i (from 0) of call c is as addDocument must make it.
RecordOfChunk(c, rec, i) ==
    /\ rec.id[4] = i
    /\ rec.metadata["chunkIndex"] = i
    /\ rec.metadata["totalChunks"] = Len(c.chunks)
    /\ rec.metadata["text"] = c.chunks[i + 1]
    /\ rec.metadata["userId"] = c.userId
    /\ \A k \in DOMAIN c.metadata \ PipelineKeys : rec.metadata[k] = c.metadata[k]
    /\ c.op = "addPdfDocument" => rec.metadata["documentType"] = "pdf"

\* C20: a successful addDocument of n chunks upserts n records into the
\* namespace of userId, in chunk order; the record of chunk i carries
\* chunkIndex i, totalChunks n, the chunk as text and the ingesting tenant as
\* userId, whatever the caller's metadata says for those keys (for
\* addPdfDocument also documentType 'pdf'); the result lists the ids of the
\* records in the same order.  (DataSpec.)
C20_RecordsInChunkOrder ==
    [][\A p \in Procs :
          calls'[p].op \in IngestOps =>
            LET c == calls[p]
                e == calls'[p]
            IN
            /\ e.pc = "upsert" => RecordOfChunk(e, e.record, e.i)
            /\ (c.pc = "upsert" /\ e # c /\ e.pc # "failed") =>
                  /\ c.record \in store'[Namespace(c.userId)]
                  /\ e.results = Append(c.results,
                        [doc |-> c.d, id |-> c.record.id, chunk |-> c.chunks[c.i + 1]])
            /\ (e.pc = "done" /\ e.op \in {"addDocument", "addPdfDocument"}) =>
                  /\ Len(e.results) = Len(e.chunks)
                  /\ \A k \in 1..Len(e.results) :
                        /\ e.results[k].id[4] = k - 1
                        /\ e.results[k].chunk = e.chunks[k]]_vars

\* An addDocument of two chunks, called with metadata that names userId and
\* chunkIndex, has succeeded, and the record of its second chunk is stored
\* with the caller's title and the pipeline's userId and chunkIndex.
C20_Witness ==
    \E p \in Procs :
        /\ calls[p].op = "addDocument"
        /\ calls[p].pc = "done"
        /\ Len(calls[p].results) = 2
        /\ calls[p].metadata["userId"] # calls[p].userId
        /\ \E r \in store[Namespace(calls[p].userId)] :
              /\ r.id = calls[p].results[2].id
              /\ r.metadata["title"] = "T"
              /\ r.metadata["userId"] = calls[p].userId
              /\ r.metadata["chunkIndex"] = 1

=============================================================================
